---- MODULE Spec2Model ----
(***************************************************************************)
(* A state-machine model of the libvfn NVMe controller core                *)
(* (src/src/nvme/core.c): controller bring-up (nvme_init, nvme_reset,      *)
(* nvme_enable, nvme_wait_rdy), queue configuration and discard, I/O queue *)
(* creation, one-shot command execution, asynchronous event handling and   *)
(* nvme_close.                                                             *)
(*                                                                         *)
(* One thread drives the controller (the library is single-threaded per    *)
(* controller); pc is that thread's position.  The device is the           *)
(* environment: it owns CAP, reacts to CC by changing CSTS.RDY, and        *)
(* completes submitted commands in any order with any status.              *)
(*                                                                         *)
(* Registers wider than 31 bits (CAP) are kept as records of their fields, *)
(* because TLC's integers are 32-bit; NVME_GET on such a register          *)
(* is the field selection.  32-bit registers are integers below 2^31.      *)
(***************************************************************************)
EXTENDS Integers, Sequences, FiniteSets, TLC

(***************************************************************************)
(* Bounds of the model.                                                    *)
(***************************************************************************)
\* largest requested nsqr / ncqr (zero-based queue counts)
MaxNsqr == 1
\* admin queue size used by the model (NVME_AQ_QSIZE is 32 in the headers)
NVME_AQ_QSIZE == 3
\* largest I/O queue size a caller asks for
MaxQsize == 2
\* largest CAP.TO the device reports (units of 500 ms)
MaxTO == 1
\* the clock advances in steps of TickMs milliseconds
TickMs == 250
\* at most this many page regions are mapped at once (caps leaked regions)
MaxRegions == 6
\* the handler log keeps at most this many entries per one-shot call
MaxAen == 2
\* at most this many one-shot and queue creation calls are made on the open
\* controller (the other calls are bounded by the request pools)
MaxCalls == 2
\* nvme_close calls made on one controller
MaxClose == 2

(***************************************************************************)
(* Program constants.                                                      *)
(***************************************************************************)
NVME_AQ == 0
NVME_SQES == 6
NVME_CQES == 4
NVME_CID_AER == 32768
NVME_CTRL_F_ADMINISTRATIVE == 1
NVME_CAP_CSS_CSI == 64
NVME_CAP_CSS_ADMIN == 128
NVME_CC_CSS_NVM == 0
NVME_CC_CSS_CSI == 6
NVME_CC_CSS_ADMIN == 7
NVME_CC_AMS_RR == 0
NVME_CC_SHN_NONE == 0

(***************************************************************************)
(* Bit arithmetic on naturals.                                             *)
(***************************************************************************)
RECURSIVE BitAnd(_, _)
BitAnd(a, b) ==
    IF a = 0 \/ b = 0 THEN 0
    ELSE ((a % 2) * (b % 2)) + 2 * BitAnd(a \div 2, b \div 2)

RECURSIVE BitOr(_, _)
BitOr(a, b) ==
    IF a = 0 THEN b
    ELSE IF b = 0 THEN a
    ELSE (IF (a % 2) + (b % 2) > 0 THEN 1 ELSE 0) + 2 * BitOr(a \div 2, b \div 2)

\* value >> n and value << n
Shr(v, n) == v \div (2 ^ n)
Shl(v, n) == v * (2 ^ n)

\* NVME_GET(value, name) and NVME_SET(value, name) for a field at `shift'
\* with mask `mask' (a run of low one bits)
NVME_GET(v, shift, mask) == BitAnd(Shr(v, shift), mask)
NVME_SET(v, shift, mask) == Shl(BitAnd(v, mask), shift)

\* fields of CC, CSTS and of the Number of Queues feature dword
CC_EN(v)     == NVME_SET(v, 0, 1)
CC_CSS(v)    == NVME_SET(v, 4, 7)
CC_MPS(v)    == NVME_SET(v, 7, 15)
CC_AMS(v)    == NVME_SET(v, 11, 7)
CC_SHN(v)    == NVME_SET(v, 14, 3)
CC_IOSQES(v) == NVME_SET(v, 16, 15)
CC_IOCQES(v) == NVME_SET(v, 20, 15)
GET_CC_EN(cc)      == NVME_GET(cc, 0, 1)
GET_CSTS_RDY(csts) == NVME_GET(csts, 0, 1)
\* variant: the NSQR field read from the NCQR position
GET_NRQS_NSQR_Swapped(dw0) == NVME_GET(dw0, 16, 65535)
GET_NRQS_NSQR(dw0) == NVME_GET(dw0, 0, 65535)
GET_NRQS_NCQR(dw0) == NVME_GET(dw0, 16, 65535)

\* min_t(uint16_t, a, b)
min_t_u16(a, b) ==
    LET x == a % 65536
        y == b % 65536
    IN IF x < y THEN x ELSE y


(***************************************************************************)
(* State.                                                                  *)
(***************************************************************************)
VARIABLES
    env,     \* what the platform and the device are: class code, CAP, page shift
    ctrl,    \* struct nvme_ctrl: flags, opts, config, BAR mappings, queue arrays
    reg,     \* the controller registers CC, CSTS, AQA, ASQ, ACQ
    sq,      \* ctrl->sq[]: the submission queue descriptors with their pools
    cq,      \* ctrl->cq[]: the completion queue descriptors
    res,     \* live page mappings, IOMMU mappings, heap arrays, ephemeral maps
    dev,     \* per SQ: the ring slot written last, the tail doorbell, the
             \* commands the device has fetched and not completed
    pc,      \* where the calling thread is
    fr,      \* the locals of the call in progress (nvme_oneshot and its caller)
    wr,      \* the locals of nvme_wait_rdy
    now,     \* time_now() in ms, counted from the start of the current wait
    out,     \* what the last finished call returned
    aenLog,  \* async-event dispatches made during the current one-shot call
    ncalls,  \* one-shot and queue creation calls made on the open controller
    ev,      \* register and doorbell accesses of nvme_init, in program order
    cl       \* nvme_close: the calls made, what they did and what they released

vars == <<env, ctrl, reg, sq, cq, res, dev, pc, fr, wr, now, out, aenLog, ncalls,
          ev, cl>>

\* queue ids a caller may pass; the arrays hold opts.nsqr + 2 and opts.ncqr + 2 entries
QidRange == 0 .. (MaxNsqr + 2)
ArrRange == 0 .. (MaxNsqr + 1)

PAGESHIFT == env.pageshift
PAGESIZE == 2 ^ env.pageshift

\* a zeroed struct nvme_cq / struct nvme_sq
ZeroCq == [id |-> 0, qsize |-> 0, vaddr |-> 0, efd |-> 0]
ZeroSq == [id |-> 0, qsize |-> 0, vaddr |-> 0, pages |-> 0, rqs |-> 0,
           cq |-> -1, tail |-> 0, free |-> <<>>, opq |-> <<>>]

NoSqe == [opc |-> "none", cid |-> 0]
NoCqe == [cid |-> 0, status |-> 0, dw0 |-> 0]
\* a ring nothing was written to
NoSlot == [slot |-> -1, sqe |-> NoSqe]

\* struct nvme_ctrl, zero-initialised by the caller
ZeroCtrl == [flags |-> 0, nsqr |-> 0, ncqr |-> 0, nsqa |-> 0, ncqa |-> 0,
             pci |-> FALSE, regs |-> FALSE, doorbells |-> FALSE,
             sqs |-> FALSE, cqs |-> FALSE, adminq |-> FALSE]

NoWait == [ctx |-> "none", rdy |-> 0, deadline |-> 0, csts |-> -1, ret |-> 0]
\* the state a call started in, for comparison when it returns
NoPre == [free |-> <<>>, tail |-> 0, db |-> 0, ring |-> NoSlot, iomap |-> {},
          pgmap |-> {}, eph |-> 0]
\* the locals of nvme_oneshot (q, rq, buf, copy, ret, cqe) and of the call that
\* runs it (op, caller, qid, qsize, cpre: the IOMMU mappings when it began); st is how far the one-shot got, seen the CQE
\* last taken from the completion queue, polls the parity of the CQEs taken
NoFrame == [op |-> "none", caller |-> "none", q |-> 0, rq |-> 0, buf |-> FALSE, copy |-> FALSE,
            st |-> "none", ret |-> 0, errno |-> "none", seen |-> NoCqe,
            cqecopy |-> NoCqe, polls |-> 0, qid |-> 0, qsize |-> 0,
            nack |-> FALSE, pre |-> NoPre, cpre |-> 0]
NoOut == [op |-> "none", ret |-> 0, errno |-> "none", at |-> "none", qid |-> 0,
          nack |-> FALSE, pre |-> NoPre, cpre |-> 0]

Ret(op, r, e) == [NoOut EXCEPT !.op = op, !.ret = r, !.errno = e]

\* the memory and device state the queue operations act on
World == [sq |-> sq, cq |-> cq, res |-> res, dev |-> dev]

(***************************************************************************)
(* Page, IOMMU and heap primitives (the collaborators of core.c).  Every   *)
(* region gets an identity; releasing what is not live is recorded.        *)
(***************************************************************************)
Used(w) ==
    w.res.pgmap \cup w.res.iomap \cup w.res.heap
      \cup {w.cq[i].vaddr : i \in ArrRange}
      \cup {w.sq[i].vaddr : i \in ArrRange}
      \cup {w.sq[i].pages : i \in ArrRange}
      \cup {w.sq[i].rqs : i \in ArrRange}

\* the address a new mapping or allocation gets: one never seen live or stale
Fresh(w) ==
    LET U == Used(w) \ {0}
    IN CHOOSE n \in 1 .. (Cardinality(U) + 1) :
           n \notin U /\ \A m \in 1 .. (n - 1) : m \in U

PgMap(r, p) == [r EXCEPT !.pgmap = @ \cup {p}]
PgUnmap(r, p) ==
    IF p \in r.pgmap THEN [r EXCEPT !.pgmap = @ \ {p}]
    ELSE [r EXCEPT !.faults = @ \cup {"pgunmap"}]
IoMap(r, p) == [r EXCEPT !.iomap = @ \cup {p}]
\* vfio_unmap_vaddr: fails (and is only logged) when the address is not mapped
IoUnmap(r, p) ==
    IF p \in r.iomap THEN [r EXCEPT !.iomap = @ \ {p}]
    ELSE [r EXCEPT !.faults = @ \cup {"iounmap"}]
Alloc(r, p) == [r EXCEPT !.heap = @ \cup {p}]
\* free(): a no-op on NULL, a double free when the array is not live
Free(r, p) ==
    IF p = 0 THEN r
    ELSE IF p \in r.heap THEN [r EXCEPT !.heap = @ \ {p}]
    ELSE [r EXCEPT !.faults = @ \cup {"free"}]

(***************************************************************************)
(* Queue configuration and discard.  Each operator takes the world w and   *)
(* yields [w, ret, errno]; oc names which collaborator call fails.         *)
(***************************************************************************)
Result(w, r, e) == [w |-> w, ret |-> r, errno |-> e]

\* variant: the list is linked upwards, rqs[0] first
FreeList_Ascending(qsize) == [k \in 1 .. (qsize - 1) |-> k - 1]

\* rqs[i] as the loop of nvme_configure_sq fills it in, for the queue at index
\* qid whose scratch pages start at region `pages': back-pointer, cid, the
\* context's page (offset i << PAGESHIFT into the region) and rq_next
\* (-1: NULL, left by zmallocn)
RqInit(qid, pages, i) ==
    [sq |-> qid, cid |-> i, page |-> [base |-> pages, off |-> Shl(i, PAGESHIFT)],
     rq_next |-> IF i > 0 THEN i - 1 ELSE -1]

\* the free list built by nvme_configure_sq: rq_top = rqs[qsize - 2], each
\* rq_next the entry below, rqs[0] last; a sequence of cids, head first
FreeList(qsize) == [k \in 1 .. (qsize - 1) |-> qsize - 1 - k]

\* variant: a queue of one entry is accepted
ConfigureCq_AcceptsQsize1(w, c, qid, qsize, oc) ==
    IF qid > c.ncqa THEN Result(w, -1, "EINVAL")
    ELSE IF qsize < 1 THEN Result(w, -1, "EINVAL")
    ELSE
        LET p == Fresh(w)
            d == [id |-> qid, qsize |-> qsize, vaddr |-> p, efd |-> -1]
            w1 == [w EXCEPT !.cq[qid] = d, !.res = PgMap(@, p)]
        IN IF oc = "cq_iommu"
           THEN Result([w1 EXCEPT !.res = PgUnmap(@, p)], -1, "EIO")
           ELSE Result([w1 EXCEPT !.res = IoMap(@, p)], 0, "none")

\* nvme_configure_cq
ConfigureCq(w, c, qid, qsize, oc) ==
    IF qid > c.ncqa THEN Result(w, -1, "EINVAL")
    ELSE IF qsize < 2 THEN Result(w, -1, "EINVAL")
    ELSE
        LET p == Fresh(w)
            d == [id |-> qid, qsize |-> qsize, vaddr |-> p, efd |-> -1]
            w1 == [w EXCEPT !.cq[qid] = d, !.res = PgMap(@, p)]
        IN IF oc = "cq_iommu"
           THEN Result([w1 EXCEPT !.res = PgUnmap(@, p)], -1, "EIO")
           ELSE Result([w1 EXCEPT !.res = IoMap(@, p)], 0, "none")

\* variant: the descriptor is not cleared after its ring is released
DiscardCq_KeepsDescriptor(w, qid) ==
    LET d == w.cq[qid]
    IN IF d.vaddr = 0 THEN w
       ELSE [w EXCEPT !.res = PgUnmap(IoUnmap(@, d.vaddr), d.vaddr)]

\* nvme_discard_cq
DiscardCq(w, qid) ==
    LET d == w.cq[qid]
    IN IF d.vaddr = 0 THEN w
       ELSE [w EXCEPT !.res = PgUnmap(IoUnmap(@, d.vaddr), d.vaddr),
                      !.cq[qid] = ZeroCq]

\* nvme_configure_sq; the SQE ring and the doorbell of the queue start empty
ConfigureSq(w, c, qid, qsize, cqref, oc) ==
    IF qid > c.nsqa THEN Result(w, -1, "EINVAL")
    ELSE IF qsize < 2 THEN Result(w, -1, "EINVAL")
    ELSE
        LET d0 == [ZeroSq EXCEPT !.id = qid, !.qsize = qsize, !.cq = cqref]
            w0 == [w EXCEPT !.sq[qid] = d0]
        IN IF oc = "sq_pages_pgmap" THEN Result(w0, -1, "ENOMEM")
           ELSE
             LET pp == Fresh(w0)
                 w1 == [w0 EXCEPT !.sq[qid].pages = pp, !.res = PgMap(@, pp)]
             IN IF oc = "sq_pages_iommu"
                THEN \* unmap_pages
                     Result([w1 EXCEPT !.res = PgUnmap(IoUnmap(@, pp), pp)], -1, "EIO")
                ELSE
                  LET w2 == [w1 EXCEPT !.res = IoMap(@, pp)]
                      h == Fresh(w2)
                      w3 == [w2 EXCEPT !.sq[qid].rqs = h,
                                       !.sq[qid].free = FreeList(qsize),
                                       !.sq[qid].opq = [k \in 1 .. (qsize - 1) |-> "none"],
                                       !.res = Alloc(@, h)]
                  IN IF oc = "sq_ring_pgmap"
                     THEN \* free_sq_rqs, unmap_pages
                          Result([w3 EXCEPT
                                    !.res = PgUnmap(IoUnmap(Free(@, h), pp), pp)],
                                 -1, "ENOMEM")
                     ELSE
                       LET v == Fresh(w3)
                           w4 == [w3 EXCEPT !.sq[qid].vaddr = v, !.res = PgMap(@, v)]
                       IN IF oc = "sq_ring_iommu"
                          THEN \* unmap_sq, free_sq_rqs, unmap_pages
                               Result([w4 EXCEPT
                                         !.res = PgUnmap(IoUnmap(Free(PgUnmap(@, v), h),
                                                                 pp), pp)],
                                      -1, "EIO")
                          ELSE Result([w4 EXCEPT
                                         !.res = IoMap(@, v),
                                         !.dev.ring[qid] = NoSlot],
                                      0, "none")

\* nvme_discard_sq
DiscardSq(w, qid) ==
    LET d == w.sq[qid]
    IN IF d.vaddr = 0 THEN w
       ELSE [w EXCEPT
               !.res = PgUnmap(IoUnmap(Free(PgUnmap(IoUnmap(@, d.vaddr), d.vaddr),
                                            d.rqs), d.pages), d.pages),
               !.sq[qid] = ZeroSq]

(***************************************************************************)
(* The request pool and the ring (vfn/nvme/rq.h, queue.h: not in src/).    *)
(***************************************************************************)
\* nvme_rq_acquire: the pool's head, or none (NULL, errno EBUSY) when empty
PoolEmpty(s) == s.free = <<>>
RqTop(s) == Head(s.free)
RqAcquire(w, q) == [w EXCEPT !.sq[q].free = Tail(@)]

\* nvme_rq_release: push the context back as the new head
RqRelease(w, q, rq) == [w EXCEPT !.sq[q].free = <<rq>> \o @]

\* nvme_rq_prep_cmd: the SQE's command identifier becomes the context's cid
RqPrepCmd(rq, cmd) == [cmd EXCEPT !.cid = rq]

\* nvme_sq_exec: copy the SQE into slot tail, advance tail modulo qsize, ring
\* the doorbell; the device then holds the command.  Of the ring the model
\* keeps the slot written last: the device has fetched the older ones and the
\* host never reads them back
SqExec(w, q, cmd) ==
    LET s == w.sq[q]
        t == (s.tail + 1) % s.qsize
    IN [w EXCEPT !.dev.ring[q] = [slot |-> s.tail, sqe |-> cmd],
                 !.sq[q].tail = t,
                 !.dev.db[q] = t,
                 !.dev.inflight[q] = @ \cup {cmd}]

\* nvme_rq_exec: prepare the command for the context, then post it
RqExec(w, q, rq, cmd) == SqExec(w, q, RqPrepCmd(rq, cmd))

\* a caller may use a queue whose pool array and ring are live, or one whose
\* pool is empty (a zeroed descriptor)
SqUsable(q) ==
    \/ PoolEmpty(sq[q])
    \/ sq[q].rqs \in res.heap /\ sq[q].vaddr \in res.iomap

Sqe(opc, cid) == [opc |-> opc, cid |-> cid]

(***************************************************************************)
(* nvme_oneshot, in three parts: up to the poll loop, one turn of the      *)
(* loop, and what follows the loop.                                        *)
(***************************************************************************)
\* variant: the context is not released when mapping the buffer fails
OneshotStart_KeepsRqOnMapFail(w, q, sqe, buf, oc) ==
    IF PoolEmpty(w.sq[q])
    THEN [w |-> w, st |-> "busy", rq |-> 0, ret |-> -1, errno |-> "EBUSY"]
    ELSE
        LET rq == RqTop(w.sq[q])
            w1 == RqAcquire(w, q)
        IN IF buf /\ oc = "eph_map"
           THEN [w |-> w1, st |-> "mapfail", rq |-> rq, ret |-> -1, errno |-> "EIO"]
           ELSE
                LET w2 == IF buf THEN [w1 EXCEPT !.res.eph = @ + 1] ELSE w1
                IN [w |-> RqExec(w2, q, rq, sqe), st |-> "polling", rq |-> rq,
                    ret |-> 0, errno |-> "none"]

\* variant: the command is posted although no context could be acquired
OneshotStart_PostsWhenBusy(w, q, sqe, buf, oc) ==
    IF PoolEmpty(w.sq[q])
    THEN [w |-> IF w.sq[q].qsize > 0 THEN SqExec(w, q, sqe) ELSE w,
          st |-> "busy", rq |-> 0, ret |-> -1, errno |-> "EBUSY"]
    ELSE
        LET rq == RqTop(w.sq[q])
            w1 == RqAcquire(w, q)
        IN IF buf /\ oc = "eph_map"
           THEN [w |-> RqRelease(w1, q, rq), st |-> "mapfail", rq |-> rq,
                 ret |-> -1, errno |-> "EIO"]
           ELSE
                LET w2 == IF buf THEN [w1 EXCEPT !.res.eph = @ + 1] ELSE w1
                IN [w |-> RqExec(w2, q, rq, sqe), st |-> "polling", rq |-> rq,
                    ret |-> 0, errno |-> "none"]

\* lines 563-575: acquire, map the buffer, post.  st is "busy", "mapfail"
\* or "polling"
OneshotStart(w, q, sqe, buf, oc) ==
    IF PoolEmpty(w.sq[q])
    THEN [w |-> w, st |-> "busy", rq |-> 0, ret |-> -1, errno |-> "EBUSY"]
    ELSE
        LET rq == RqTop(w.sq[q])
            w1 == RqAcquire(w, q)
        IN IF buf /\ oc = "eph_map"
           THEN \* release_rq
                [w |-> RqRelease(w1, q, rq), st |-> "mapfail", rq |-> rq,
                 ret |-> -1, errno |-> "EIO"]
           ELSE
                LET w2 == IF buf THEN [w1 EXCEPT !.res.eph = @ + 1] ELSE w1
                IN [w |-> RqExec(w2, q, rq, sqe), st |-> "polling", rq |-> rq,
                    ret |-> 0, errno |-> "none"]

\* variant: the result of vfio_free_ephemeral is dropped
OneshotFinish_DropsFreeResult(w, q, rq, buf, oc) ==
    LET failed == buf /\ oc = "eph_free"
        w1 == IF buf /\ ~failed THEN [w EXCEPT !.res.eph = @ - 1] ELSE w
    IN [w |-> RqRelease(w1, q, rq), ret |-> 0, errno |-> "none"]

\* lines 587-596: free the ephemeral mapping, release the context, return
OneshotFinish(w, q, rq, buf, oc) ==
    LET failed == buf /\ oc = "eph_free"
        w1 == IF buf /\ ~failed THEN [w EXCEPT !.res.eph = @ - 1] ELSE w
    IN [w |-> RqRelease(w1, q, rq),
        ret |-> IF failed THEN -1 ELSE 0,
        errno |-> IF failed THEN "EIO" ELSE "none"]

\* nvme_rq_poll: "again" when the CQE is not the context's own
RqPoll(rq, cqe) == IF cqe.cid # rq THEN "again" ELSE "done"

\* nvme_aen_handle: recover the context from the CQE, dispatch, post again
AenCid(cqe) == BitAnd(cqe.cid, NVME_CID_AER - 1)
AenDispatch(w, cqe) ==
    LET h == w.sq[NVME_AQ].opq[AenCid(cqe) + 1]
    IN IF h # "none" THEN <<"handler", cqe.dw0>> ELSE <<"log", cqe.dw0>>
AenHandle(w, cqe) ==
    LET rq == AenCid(cqe)
        c0 == RqPrepCmd(rq, Sqe("async_event", 0))
        c1 == [c0 EXCEPT !.cid = BitOr(@, NVME_CID_AER)]
    IN RqExec(w, NVME_AQ, rq, c1)

\* nvme_aen_enable, after a successful acquire
AenEnablePost(w, handler) ==
    LET rq == RqTop(w.sq[NVME_AQ])
        w1 == RqAcquire(w, NVME_AQ)
        c0 == RqPrepCmd(rq, Sqe("async_event", 0))
        c1 == [c0 EXCEPT !.cid = BitOr(@, NVME_CID_AER)]
        w2 == [w1 EXCEPT !.sq[NVME_AQ].opq[rq + 1] = handler]
    IN SqExec(w2, NVME_AQ, c1)

(***************************************************************************)
(* Initial states.  The platform and the device are chosen once: the PCI   *)
(* class code, CAP, the host page shift, the CC value the device starts    *)
(* with, the options the caller passes, and the values the device may put  *)
(* into a completion.                                                      *)
(***************************************************************************)
\* 0x010802 (NVM Express I/O controller), 0x010803 (administrative controller)
ClassNvme == {67586, 67587}
\* 0x010601 (AHCI): not an NVMe device
ClassOther == {67073}

MainEnvs ==
    [classcode : ClassNvme,
     cap : [to : {0}, mpsmin : {0}, css : {1}],
     pageshift : {12},
     cc0 : {0},
     nsqr : {MaxNsqr}, ncqr : {MaxNsqr},
     status : {{0, 257}},
     dw0 : {{65537, 196611}}]

\* every CAP.MPSMIN, CAP.TO and page size on an NVMe controller, and every
\* class code, CAP.CSS, starting CC and requested queue count on a 4 KiB or 64 KiB host
OpenEnvs ==
    [classcode : {67586},
     cap : [to : 0 .. MaxTO, mpsmin : 0 .. 15, css : {1}],
     pageshift : {12, 16},
     cc0 : {0},
     nsqr : {MaxNsqr}, ncqr : {MaxNsqr},
     status : {{0, 257}},
     dw0 : {{0, 65537, 3, 196608, 196611}}]
    \cup
    [classcode : ClassNvme \cup ClassOther,
     cap : [to : {0}, mpsmin : {0}, css : {1, 65, 129}],
     pageshift : {12, 16},
     cc0 : {0, 4587521},
     nsqr : 0 .. MaxNsqr, ncqr : 0 .. MaxNsqr,
     status : {{0, 257}},
     dw0 : {{0, 65537, 3, 196608, 196611}}]

\* nvme_close has not been called
\* from: where the caller stood at the last call; n: calls made; log: what the
\* last call did, in program order; gone: what nvme_close has released;
\* faults: accesses to and releases of what is not held; asq, acq: the admin
\* rings the last call found in sq[0] and cq[0]
NoClose == [from |-> "none", n |-> 0, log |-> <<>>, gone |-> {}, faults |-> {},
            asq |-> 0, acq |-> 0]

InitWith(E) ==
    /\ env \in E
    /\ ctrl = ZeroCtrl
    /\ reg = [cc |-> env.cc0, csts |-> GET_CC_EN(env.cc0), aqa |-> 0, asq |-> 0, acq |-> 0]
    /\ sq = [q \in ArrRange |-> ZeroSq]
    /\ cq = [q \in ArrRange |-> ZeroCq]
    /\ res = [pgmap |-> {}, iomap |-> {}, heap |-> {}, eph |-> 0, faults |-> {}]
    /\ dev = [ring |-> [q \in ArrRange |-> NoSlot], db |-> [q \in ArrRange |-> 0],
              inflight |-> [q \in ArrRange |-> {}]]
    /\ pc = "fresh"
    /\ fr = NoFrame
    /\ wr = NoWait
    /\ now = 0
    /\ out = NoOut
    /\ aenLog = <<>>
    /\ ncalls = 0
    /\ ev = <<>>
    /\ cl = NoClose

Init == InitWith(MainEnvs)
InitOpen == InitWith(OpenEnvs)

SetWorld(w) ==
    /\ sq' = w.sq
    /\ cq' = w.cq
    /\ res' = w.res
    /\ dev' = w.dev

(***************************************************************************)
(* The device's side of the CC/CSTS handshake, and the clock.              *)
(***************************************************************************)
\* the device brings CSTS.RDY to CC.EN at a time of its choosing
DevReady ==
    /\ GET_CSTS_RDY(reg.csts) # GET_CC_EN(reg.cc)
    /\ reg' = [reg EXCEPT !.csts = GET_CC_EN(reg.cc)]
    /\ UNCHANGED <<env, ev, cl, ctrl, sq, cq, res, dev, pc, fr, wr, now, out, aenLog, ncalls>>

\* time passes while the thread waits; the clock is not followed past the deadline
Tick ==
    /\ pc = "wait_rdy"
    /\ now <= wr.deadline
    /\ now' = now + TickMs
    /\ UNCHANGED <<env, ev, cl, ctrl, reg, sq, cq, res, dev, pc, fr, wr, out, aenLog, ncalls>>

(***************************************************************************)
(* nvme_wait_rdy.                                                          *)
(***************************************************************************)
\* variant: the timeout without the + 1
WaitTimeoutMs_NoPlusOne(to) == 500 * to
\* timeout_ms = 500 * (CAP.TO + 1)
WaitTimeoutMs(to) == 500 * (to + 1)
\* time_after(a, b)
TimeAfter(a, b) == a > b

\* lines 329-331: read CAP, compute the deadline
WaitEnter(ctx, rdy) ==
    [ctx |-> ctx, rdy |-> rdy, deadline |-> 0 + WaitTimeoutMs(env.cap.to),
     csts |-> -1, ret |-> 0]

\* a write of CC, named by the EN bit of the value written
CcEvent(v) == IF GET_CC_EN(v) = 1 THEN "cc_en1" ELSE "cc_en0"
\* the read of CSTS that ends the loop, named by the RDY bit read
RdyEvent(csts) == IF GET_CSTS_RDY(csts) = 1 THEN "rdy1" ELSE "rdy0"

\* variant: the loop gives up without an error when the deadline has passed
WaitRdyStep_NoTimeoutError ==
    /\ pc = "wait_rdy"
    /\ IF TimeAfter(now, wr.deadline)
       THEN /\ wr' = [wr EXCEPT !.ret = 0]
            /\ pc' = "wait_ret"
            /\ ev' = ev
       ELSE /\ wr' = [wr EXCEPT !.csts = reg.csts]
            /\ pc' = IF GET_CSTS_RDY(reg.csts) # wr.rdy THEN "wait_rdy" ELSE "wait_ret"
            /\ ev' = IF GET_CSTS_RDY(reg.csts) # wr.rdy THEN ev
                     ELSE Append(ev, RdyEvent(reg.csts))
    /\ UNCHANGED <<env, cl, ctrl, reg, sq, cq, res, dev, fr, now, out, aenLog, ncalls>>

\* one turn of the do-while loop, lines 333-344
WaitRdyStep ==
    /\ pc = "wait_rdy"
    /\ IF TimeAfter(now, wr.deadline)
       THEN /\ wr' = [wr EXCEPT !.ret = -1]
            /\ pc' = "wait_ret"
            /\ ev' = ev
       ELSE /\ wr' = [wr EXCEPT !.csts = reg.csts]
            /\ pc' = IF GET_CSTS_RDY(reg.csts) # wr.rdy THEN "wait_rdy" ELSE "wait_ret"
            /\ ev' = IF GET_CSTS_RDY(reg.csts) # wr.rdy THEN ev
                     ELSE Append(ev, RdyEvent(reg.csts))
    /\ UNCHANGED <<env, cl, ctrl, reg, sq, cq, res, dev, fr, now, out, aenLog, ncalls>>

(***************************************************************************)
(* nvme_reset and nvme_enable: the CC values they write.                   *)
(***************************************************************************)
ResetCc(cc) == BitAnd(cc, 254)

EnableCc(css) ==
    LET cc0 == BitOr(CC_CSS(PAGESHIFT - 12),
               BitOr(CC_AMS(NVME_CC_AMS_RR),
               BitOr(CC_SHN(NVME_CC_SHN_NONE),
               BitOr(CC_IOSQES(NVME_SQES),
               BitOr(CC_IOCQES(NVME_CQES), CC_EN(1))))))
    IN IF BitAnd(css, NVME_CAP_CSS_CSI) # 0
       THEN BitOr(cc0, CC_CSS(NVME_CC_CSS_CSI))
       ELSE IF BitAnd(css, NVME_CAP_CSS_ADMIN) # 0
            THEN BitOr(cc0, CC_CSS(NVME_CC_CSS_ADMIN))
            ELSE BitOr(cc0, CC_CSS(NVME_CC_CSS_NVM))

(***************************************************************************)
(* nvme_init.                                                              *)
(***************************************************************************)
InitFail(c, w, errno, at) ==
    /\ ctrl' = c
    /\ SetWorld(w)
    /\ pc' = "failed"
    /\ out' = [Ret("init", -1, errno) EXCEPT !.at = at]
    /\ fr' = NoFrame
    /\ wr' = NoWait
    /\ now' = 0

\* the class code names an NVMe device: (classcode & 0xffff00) == 0x010800
IsNvmeClass(classcode) == BitAnd(classcode, 16776960) = 67584
\* the class code names an administrative controller
IsAdminClass(classcode) == BitAnd(classcode, 255) = 3
\* the test of the controller's minimum page size, line 431
MpsTooLarge(mpsmin) == Shr(12 + mpsmin, 12) > PAGESIZE

\* lines 397-437, nvme_reset and the entry of its nvme_wait_rdy
InitProbe ==
    /\ pc = "fresh"
    /\ \E oc \in {"ok", "info", "pci_open", "bar"} :
        LET c0 == [ctrl EXCEPT !.nsqr = env.nsqr, !.ncqr = env.ncqr]
            c1 == IF IsAdminClass(env.classcode)
                  THEN [c0 EXCEPT !.flags = NVME_CTRL_F_ADMINISTRATIVE] ELSE c0
            c2 == [c1 EXCEPT !.pci = TRUE]
            c3 == [c2 EXCEPT !.regs = TRUE]
        IN IF oc = "info" THEN InitFail(c0, World, "EIO", "class") /\ reg' = reg
           ELSE IF ~IsNvmeClass(env.classcode)
                THEN InitFail(c0, World, "EINVAL", "class") /\ reg' = reg
           ELSE IF oc = "pci_open" THEN InitFail(c1, World, "EIO", "pci_open") /\ reg' = reg
           ELSE IF oc = "bar" THEN InitFail(c2, World, "EIO", "regs") /\ reg' = reg
           ELSE IF MpsTooLarge(env.cap.mpsmin)
                THEN InitFail(c3, World, "EINVAL", "pagesize") /\ reg' = reg
           ELSE /\ ctrl' = c3
                /\ reg' = [reg EXCEPT !.cc = ResetCc(reg.cc)]
                /\ wr' = WaitEnter("reset", 0)
                /\ now' = 0
                /\ pc' = "wait_rdy"
                /\ UNCHANGED <<sq, cq, res, dev, fr, out>>
    /\ ev' = IF pc' = "wait_rdy" THEN Append(ev, CcEvent(reg'.cc)) ELSE ev
    /\ UNCHANGED <<env, cl, aenLog, ncalls>>

\* nvme_configure_adminq, as [w, ret, errno]
ConfigureAdminq(w, c, oc) ==
    LET r1 == ConfigureCq(w, c, NVME_AQ, NVME_AQ_QSIZE, oc)
    IN IF r1.ret # 0 THEN r1
       ELSE LET r2 == ConfigureSq(r1.w, c, NVME_AQ, NVME_AQ_QSIZE, NVME_AQ, oc)
            IN IF r2.ret # 0
               THEN \* discard_cq
                    Result(DiscardCq(r2.w, NVME_AQ), -1, r2.errno)
               ELSE r2

\* AQA as nvme_configure_adminq programs it
AqaValue == BitOr(NVME_AQ_QSIZE - 1, Shl(NVME_AQ_QSIZE - 1, 16))

ConfigOutcomes ==
    {"ok", "cq_iommu", "sq_pages_pgmap", "sq_pages_iommu", "sq_ring_pgmap", "sq_ring_iommu"}

\* nvme_init after nvme_reset returned: lines 437-458, nvme_configure_adminq,
\* nvme_enable and the entry of its nvme_wait_rdy
InitConfigure ==
    /\ pc = "wait_ret"
    /\ wr.ctx = "reset"
    /\ \E oc \in ConfigOutcomes \cup {"doorbells"} :
        LET c1 == [ctrl EXCEPT !.doorbells = TRUE]
            c2 == [c1 EXCEPT !.sqs = TRUE, !.cqs = TRUE]
            r == ConfigureAdminq(World, c2, oc)
            c3 == [c2 EXCEPT !.adminq = TRUE]
        IN IF wr.ret # 0 THEN InitFail(ctrl, World, "ETIMEDOUT", "reset") /\ reg' = reg
           ELSE IF oc = "doorbells"
                THEN InitFail(ctrl, World, "EIO", "doorbells") /\ reg' = reg
           ELSE IF r.ret # 0 THEN InitFail(c2, r.w, r.errno, "adminq") /\ reg' = reg
           ELSE /\ ctrl' = c3
                /\ SetWorld(r.w)
                /\ reg' = [reg EXCEPT !.aqa = AqaValue,
                                      !.asq = r.w.sq[NVME_AQ].vaddr,
                                      !.acq = r.w.cq[NVME_AQ].vaddr,
                                      !.cc = EnableCc(env.cap.css)]
                /\ wr' = WaitEnter("enable", 1)
                /\ now' = 0
                /\ pc' = "wait_rdy"
                /\ UNCHANGED <<fr, out>>
    /\ ev' = IF pc' = "wait_rdy"
             THEN ev \o <<"aqa", "asq", "acq", CcEvent(reg'.cc)>> ELSE ev
    /\ UNCHANGED <<env, cl, aenLog, ncalls>>

(***************************************************************************)
(* Running nvme_oneshot: entry, the poll loop, return.                     *)
(***************************************************************************)
Snap(w, q) ==
    [free |-> w.sq[q].free, tail |-> w.sq[q].tail, db |-> w.dev.db[q],
     ring |-> w.dev.ring[q], iomap |-> w.res.iomap, pgmap |-> w.res.pgmap,
     eph |-> w.res.eph]

\* enter nvme_oneshot from `caller' in world w; f carries the caller's locals
BeginOneshot(w, f, caller, q, sqe, buf, copy, oc) ==
    LET o == OneshotStart(w, q, sqe, buf, oc)
    IN /\ SetWorld(o.w)
       /\ fr' = [f EXCEPT !.caller = caller, !.q = q, !.rq = o.rq, !.buf = buf,
                          !.copy = copy, !.st = o.st, !.ret = o.ret,
                          !.errno = o.errno, !.seen = NoCqe, !.cqecopy = NoCqe,
                          !.polls = 0, !.pre = Snap(w, q)]
       /\ pc' = IF o.st = "polling" THEN "poll" ELSE "oneshot_ret"

\* nvme_init after nvme_enable returned: lines 458-476, into the Set Features
\* one-shot
InitNegotiate ==
    /\ pc = "wait_ret"
    /\ wr.ctx = "enable"
    /\ IF wr.ret # 0 THEN InitFail(ctrl, World, "ETIMEDOUT", "enable")
       ELSE IF BitAnd(ctrl.flags, NVME_CTRL_F_ADMINISTRATIVE) # 0
       THEN /\ pc' = "ret"
            /\ out' = Ret("init", 0, "none")
            /\ fr' = NoFrame
            /\ wr' = NoWait
            /\ now' = 0
            /\ UNCHANGED <<ctrl, sq, cq, res, dev>>
       ELSE /\ BeginOneshot(World, NoFrame, "init", NVME_AQ,
                            Sqe("set_features", 1), FALSE, TRUE, "ok")
            /\ wr' = NoWait
            /\ now' = 0
            /\ UNCHANGED <<ctrl, out>>
    /\ ev' = IF pc' = "poll" THEN Append(ev, "sq_db") ELSE ev
    /\ UNCHANGED <<env, cl, reg, aenLog, ncalls>>

\* the completion the device posts for command c
PollCqe(c, st, dw0) == [cid |-> c.cid, status |-> st, dw0 |-> dw0]

\* variant: the AER bit is honoured on every queue
Route_AnyQueue(s, rq, cqe) ==
    IF RqPoll(rq, cqe) = "done" THEN "done"
    ELSE IF BitAnd(cqe.cid, NVME_CID_AER) # 0 THEN "aer"
    ELSE "spurious"

\* lines 577-585: what the loop does with a CQE
Route(s, rq, cqe) ==
    IF RqPoll(rq, cqe) = "done" THEN "done"
    ELSE IF s.id = NVME_AQ /\ BitAnd(cqe.cid, NVME_CID_AER) # 0 THEN "aer"
    ELSE "spurious"

Taken(w, q, c) == [w EXCEPT !.dev.inflight[q] = @ \ {c}]

\* what the device may complete next on queue q: a command in flight or, on an
\* I/O queue, a stray completion for no command, its identifier's high bit set
\* (on the admin queue nvme_aen_handle would look up a context that identifier
\* does not name, so strays are kept to the I/O queues)
Arrivals(q) ==
    dev.inflight[q] \cup (IF q # NVME_AQ THEN {Sqe("stray", NVME_CID_AER + 1)} ELSE {})

\* a CQE with the AER bit arrives on the admin queue: nvme_aen_handle, continue
PollAer ==
    /\ pc = "poll"
    /\ Len(aenLog) < MaxAen
    /\ \E c \in Arrivals(fr.q), dw0 \in env.dw0 :
        LET cqe == PollCqe(c, 0, dw0)
            w0 == Taken(World, fr.q, c)
        IN /\ Route(sq[fr.q], fr.rq, cqe) = "aer"
           /\ AenCid(cqe) + 1 \in DOMAIN sq[NVME_AQ].opq
           /\ SetWorld(AenHandle(w0, cqe))
           /\ aenLog' = Append(aenLog, AenDispatch(w0, cqe))
           /\ fr' = [fr EXCEPT !.seen = cqe, !.polls = 1 - @]
    /\ UNCHANGED <<env, ev, cl, ctrl, reg, pc, wr, now, out, ncalls>>

\* a CQE that is neither the awaited one nor an async event: logged, continue
PollSpurious ==
    /\ pc = "poll"
    /\ \E c \in Arrivals(fr.q), st \in env.status :
        LET cqe == PollCqe(c, st, 0)
        IN /\ Route(sq[fr.q], fr.rq, cqe) = "spurious"
           /\ SetWorld(Taken(World, fr.q, c))
           /\ fr' = [fr EXCEPT !.seen = cqe, !.polls = 1 - @]
    /\ UNCHANGED <<env, ev, cl, ctrl, reg, pc, wr, now, out, aenLog, ncalls>>

\* the awaited CQE arrives: leave the loop, lines 587-596 (the dw0 of a CQE
\* that is not copied out is read by no one, and is left 0)
PollDone ==
    /\ pc = "poll"
    /\ \E c \in Arrivals(fr.q), st \in env.status,
          dw0 \in (IF fr.copy THEN env.dw0 ELSE {0}),
          oc \in (IF fr.buf THEN {"ok", "eph_free"} ELSE {"ok"}) :
        LET cqe == PollCqe(c, st, dw0)
            fin == OneshotFinish(Taken(World, fr.q, c), fr.q, fr.rq, fr.buf, oc)
        IN /\ Route(sq[fr.q], fr.rq, cqe) = "done"
           /\ SetWorld(fin.w)
           /\ fr' = [fr EXCEPT !.seen = cqe, !.polls = 1 - @, !.st = "done",
                               !.ret = fin.ret, !.errno = fin.errno,
                               !.cqecopy = IF fr.copy THEN cqe ELSE NoCqe,
                               !.nack = @ \/ st # 0]
    /\ pc' = "oneshot_ret"
    \* the CQ head doorbell is written once the entry is consumed
    /\ ev' = IF fr.caller = "init" THEN Append(ev, "cq_db") ELSE ev
    /\ UNCHANGED <<env, cl, ctrl, reg, wr, now, out, aenLog, ncalls>>

\* nvme_init after the Set Features one-shot returned: lines 476-484
RetInit ==
    /\ pc = "oneshot_ret"
    /\ fr.caller = "init"
    /\ IF fr.ret # 0 THEN InitFail(ctrl, World, fr.errno, "set_features")
       ELSE /\ ctrl' = [ctrl EXCEPT
                          !.nsqa = min_t_u16(ctrl.nsqr, GET_NRQS_NSQR(fr.cqecopy.dw0)),
                          !.ncqa = min_t_u16(ctrl.ncqr, GET_NRQS_NCQR(fr.cqecopy.dw0))]
            /\ pc' = "ret"
            /\ out' = Ret("init", 0, "none")
            /\ UNCHANGED <<sq, cq, res, dev, fr, wr, now>>
    /\ aenLog' = <<>>
    /\ UNCHANGED <<env, ev, cl, reg, ncalls>>

\* a caller's own nvme_oneshot returned
RetUser ==
    /\ pc = "oneshot_ret"
    /\ fr.caller = "user"
    /\ pc' = "idle"
    /\ fr' = NoFrame
    /\ aenLog' = <<>>
    /\ UNCHANGED <<env, ev, cl, ctrl, reg, sq, cq, res, dev, wr, now, out, ncalls>>

\* the caller goes on after a call returned
Resume ==
    /\ pc = "ret"
    /\ pc' = "idle"
    /\ out' = NoOut
    /\ fr' = NoFrame
    /\ UNCHANGED <<env, ev, cl, ctrl, reg, sq, cq, res, dev, wr, now, aenLog, ncalls>>

(***************************************************************************)
(* Calls made once the controller is open.                                 *)
(***************************************************************************)
\* a call returns r to the caller
Return(op, r, e, f) ==
    /\ pc' = "ret"
    /\ out' = [Ret(op, r, e) EXCEPT !.qid = f.qid, !.nack = f.nack, !.cpre = f.cpre]

\* the caller's nvme_oneshot(ctrl, &ctrl->sq[q], sqe, buf, len, cqe_copy)
UserOneshot ==
    /\ pc = "idle"
    /\ ncalls < MaxCalls
    /\ ncalls' = ncalls + 1
    /\ \E q \in 0 .. (ctrl.nsqr + 1), buf \in BOOLEAN, copy \in BOOLEAN,
          oc \in {"ok", "eph_map"} :
        /\ SqUsable(q)
        /\ buf \/ oc = "ok"
        /\ BeginOneshot(World, NoFrame, "user", q, Sqe("user", 1), buf, copy, oc)
    /\ aenLog' = <<>>
    /\ UNCHANGED <<env, ev, cl, ctrl, reg, wr, now, out>>

\* the caller posts a command of its own and does not wait for it:
\* nvme_rq_acquire, nvme_rq_exec
RqSubmit ==
    /\ pc = "idle"
    /\ \E q \in 0 .. (ctrl.nsqr + 1) :
        /\ SqUsable(q)
        /\ ~PoolEmpty(sq[q])
        /\ SetWorld(RqExec(RqAcquire(World, q), q, RqTop(sq[q]), Sqe("user", 1)))
    /\ UNCHANGED <<env, ev, cl, ctrl, reg, pc, fr, wr, now, out, aenLog, ncalls>>

\* nvme_aen_enable
AenEnable ==
    /\ pc = "idle"
    /\ SqUsable(NVME_AQ)
    /\ \E handler \in {"none", "h"} :
        IF PoolEmpty(sq[NVME_AQ])
        THEN /\ Return("aen_enable", -1, "EBUSY", NoFrame)
             /\ UNCHANGED <<sq, cq, res, dev>>
        ELSE /\ SetWorld(AenEnablePost(World, handler))
             /\ Return("aen_enable", 0, "none", NoFrame)
    /\ fr' = [NoFrame EXCEPT !.q = NVME_AQ, !.pre = Snap(World, NVME_AQ)]
    /\ UNCHANGED <<env, ev, cl, ctrl, reg, wr, now, aenLog, ncalls>>

\* the configure calls stop once MaxRegions regions are mapped
RegionsLeft == Cardinality(res.pgmap) < MaxRegions

\* nvme_create_iocq_oneshot: nvme_create_iocq, then the admin one-shot
CreateIocqBody(f, caller, qid, qsize, oc) ==
    LET r == ConfigureCq(World, ctrl, qid, qsize, oc)
    IN IF r.ret # 0
       THEN /\ SetWorld(r.w)
            /\ Return(f.op, -1, r.errno, f)
            /\ fr' = f
       ELSE /\ BeginOneshot(r.w, f, caller, NVME_AQ, Sqe("create_cq", 0),
                            FALSE, FALSE, "ok")
            /\ UNCHANGED out

\* nvme_create_iosq_oneshot: nvme_create_iosq, then the admin one-shot
CreateIosqBody(f, caller, qid, qsize, oc) ==
    LET r == ConfigureSq(World, ctrl, qid, qsize, qid, oc)
    IN IF r.ret # 0
       THEN /\ SetWorld(r.w)
            /\ Return(f.op, -1, r.errno, f)
            /\ fr' = f
       ELSE /\ BeginOneshot(r.w, f, caller, NVME_AQ, Sqe("create_sq", 0),
                            FALSE, FALSE, "ok")
            /\ UNCHANGED out

CallFrame(op, qid, qsize) ==
    [NoFrame EXCEPT !.op = op, !.qid = qid, !.qsize = qsize,
                    !.cpre = Cardinality(res.iomap)]

\* nvme_create_iocq_oneshot(ctrl, qid, qsize)
CreateIocq ==
    /\ pc = "idle"
    /\ ncalls < MaxCalls
    /\ ncalls' = ncalls + 1
    /\ RegionsLeft
    /\ SqUsable(NVME_AQ)
    /\ \E qid \in QidRange, qsize \in 1 .. MaxQsize, oc \in {"ok", "cq_iommu"} :
        CreateIocqBody(CallFrame("create_iocq", qid, qsize), "iocq", qid, qsize, oc)
    /\ aenLog' = <<>>
    /\ UNCHANGED <<env, ev, cl, ctrl, reg, wr, now>>

\* nvme_create_iosq_oneshot(ctrl, qid, qsize, &ctrl->cq[qid], flags)
CreateIosq ==
    /\ pc = "idle"
    /\ ncalls < MaxCalls
    /\ ncalls' = ncalls + 1
    /\ RegionsLeft
    /\ SqUsable(NVME_AQ)
    /\ \E qid \in QidRange, qsize \in 1 .. MaxQsize, oc \in ConfigOutcomes \ {"cq_iommu"} :
        CreateIosqBody(CallFrame("create_iosq", qid, qsize), "iosq", qid, qsize, oc)
    /\ aenLog' = <<>>
    /\ UNCHANGED <<env, ev, cl, ctrl, reg, wr, now>>

\* nvme_create_ioqpair(ctrl, qid, qsize, flags), up to the end of its first
\* one-shot's entry
CreateIoqpair ==
    /\ pc = "idle"
    /\ ncalls < MaxCalls
    /\ ncalls' = ncalls + 1
    /\ RegionsLeft
    /\ SqUsable(NVME_AQ)
    /\ \E qid \in QidRange, qsize \in 1 .. MaxQsize, oc \in {"ok", "cq_iommu"} :
        CreateIocqBody(CallFrame("create_ioqpair", qid, qsize), "qp_cq", qid, qsize, oc)
    /\ aenLog' = <<>>
    /\ UNCHANGED <<env, ev, cl, ctrl, reg, wr, now>>

\* nvme_create_ioqpair after nvme_create_iocq_oneshot returned: lines 309-314
\* and nvme_create_iosq_oneshot
RetQpCq ==
    /\ pc = "oneshot_ret"
    /\ fr.caller = "qp_cq"
    /\ IF fr.ret # 0
       THEN /\ Return(fr.op, -1, fr.errno, fr)
            /\ UNCHANGED <<sq, cq, res, dev, fr>>
       ELSE \E oc \in ConfigOutcomes \ {"cq_iommu"} :
                CreateIosqBody(fr, "qp_sq", fr.qid, fr.qsize, oc)
    /\ aenLog' = <<>>
    /\ UNCHANGED <<env, ev, cl, ctrl, reg, wr, now, ncalls>>

\* nvme_create_iocq_oneshot, nvme_create_iosq_oneshot and nvme_create_ioqpair
\* return what their last one-shot returned
RetCreate ==
    /\ pc = "oneshot_ret"
    /\ fr.caller \in {"iocq", "iosq", "qp_sq"}
    /\ Return(fr.op, IF fr.ret # 0 THEN -1 ELSE 0, fr.errno, fr)
    /\ aenLog' = <<>>
    /\ UNCHANGED <<env, ev, cl, ctrl, reg, sq, cq, res, dev, fr, wr, now, ncalls>>

(***************************************************************************)
(* nvme_close.  The caller's struct keeps its pointers after the call, so  *)
(* what is held is what nvme_init acquired less what nvme_close released.  *)
(***************************************************************************)
\* an operation of nvme_close on queue q (-1: not on a queue)
CloseOp(op, q) == [op |-> op, q |-> q]

\* ctrl->sq or ctrl->cq as nvme_close finds it
ArrState(c, k, x) ==
    IF ~c[x] THEN "null" ELSE IF x \in k.gone THEN "freed" ELSE "live"

\* the loop of lines 489-490 from index i on, as [w, log]
RECURSIVE CloseSqLoop(_, _, _, _)
CloseSqLoop(w, log, i, n) ==
    IF i >= n THEN [w |-> w, log |-> log]
    ELSE CloseSqLoop(DiscardSq(w, i),
                     IF w.sq[i].vaddr # 0
                     THEN Append(log, CloseOp("discard_sq", i)) ELSE log,
                     i + 1, n)

\* the loop of lines 494-495 from index i on
RECURSIVE CloseCqLoop(_, _, _, _)
CloseCqLoop(w, log, i, n) ==
    IF i >= n THEN [w |-> w, log |-> log]
    ELSE CloseCqLoop(DiscardCq(w, i),
                     IF w.cq[i].vaddr # 0
                     THEN Append(log, CloseOp("discard_cq", i)) ELSE log,
                     i + 1, n)

\* reading the descriptors of an array that is NULL or was freed, and freeing
\* it again, is undefined: ub names what the build makes of it
ArrFaults(st, ub, x) ==
    IF st = "null" THEN {"read_null_" \o x}
    ELSE {"read_freed_" \o x, "double_free_" \o x}
           \cup (IF ub = "garbage" THEN {"wild_release"} ELSE {})

\* release a BAR window or the PCI handle: k after the call
Release(c, k, x, op) ==
    [k EXCEPT !.log = Append(@, CloseOp(op, -1)),
              !.gone = @ \cup (IF c[x] THEN {x} ELSE {}),
              !.faults = @ \cup (IF c[x] /\ x \notin k.gone THEN {}
                                 ELSE IF c[x] THEN {"again_" \o op}
                                 ELSE {"never_" \o op})]

\* nvme_close(ctrl), on an open controller, after a failed nvme_init that had
\* mapped the registers, or once more after nvme_close
Close ==
    /\ pc \in {"idle", "failed", "closed"}
    /\ pc = "failed" => ctrl.regs
    /\ cl.n < MaxClose
    /\ \E ub \in {"crash", "stale", "garbage"} :
        LET sa == ArrState(ctrl, cl, "sqs")
            ca == ArrState(ctrl, cl, "cqs")
            k0 == [cl EXCEPT !.from = pc, !.n = @ + 1, !.log = <<>>,
                             !.asq = sq[NVME_AQ].vaddr, !.acq = cq[NVME_AQ].vaddr]
            \* lines 489-492
            s == IF sa = "live" THEN CloseSqLoop(World, <<>>, 0, ctrl.nsqr + 2)
                 ELSE [w |-> World, log |-> <<>>]
            k1 == IF sa = "live"
                  THEN [k0 EXCEPT !.log = Append(s.log, CloseOp("free_sq", -1)),
                                  !.gone = @ \cup {"sqs"}]
                  ELSE [k0 EXCEPT !.faults = @ \cup ArrFaults(sa, ub, "sq")]
            \* lines 494-497
            t == IF ca = "live" THEN CloseCqLoop(s.w, k1.log, 0, ctrl.ncqr + 2)
                 ELSE [w |-> s.w, log |-> k1.log]
            k2 == IF ca = "live"
                  THEN [k1 EXCEPT !.log = Append(t.log, CloseOp("free_cq", -1)),
                                  !.gone = @ \cup {"cqs"}]
                  ELSE [k1 EXCEPT !.faults = @ \cup ArrFaults(ca, ub, "cq")]
            \* lines 499-502
            k3 == Release(ctrl, k2, "regs", "unmap_regs")
            k4 == Release(ctrl, k3, "doorbells", "unmap_doorbells")
            k5 == Release(ctrl, k4, "pci", "vfio_close")
        IN IF sa # "live" /\ ub = "crash"
           THEN \* the process dies in the first loop
                /\ cl' = [k0 EXCEPT !.faults = @ \cup ArrFaults(sa, ub, "sq")]
                /\ pc' = "crashed"
                /\ UNCHANGED <<sq, cq, res, dev>>
           ELSE /\ cl' = k5
                /\ pc' = "closed"
                /\ SetWorld(t.w)
    /\ UNCHANGED <<env, ev, ctrl, reg, fr, wr, now, out, aenLog, ncalls>>

(***************************************************************************)
(* The specifications.                                                     *)
(***************************************************************************)
\* bring-up only, over every CAP, class code and page size of OpenEnvs
NextOpen ==
    \/ InitProbe
    \/ DevReady
    \/ Tick
    \/ WaitRdyStep
    \/ InitConfigure
    \/ InitNegotiate
    \/ PollDone
    \/ RetInit

\* bring-up and the calls a caller makes on the admin queue of an open controller
NextRun ==
    \/ InitProbe
    \/ DevReady
    \/ Tick
    \/ WaitRdyStep
    \/ InitConfigure
    \/ InitNegotiate
    \/ PollAer
    \/ PollSpurious
    \/ PollDone
    \/ RetInit
    \/ RetUser
    \/ Resume
    \/ UserOneshot
    \/ RqSubmit
    \/ AenEnable

\* bring-up and the creation of I/O queues
NextCreate ==
    \/ InitProbe
    \/ DevReady
    \/ Tick
    \/ WaitRdyStep
    \/ InitConfigure
    \/ InitNegotiate
    \/ PollDone
    \/ RetInit
    \/ RetQpCq
    \/ RetCreate
    \/ Resume
    \/ CreateIocq
    \/ CreateIosq
    \/ CreateIoqpair

\* bring-up and every call made on an open controller
Next ==
    \/ InitProbe
    \/ DevReady
    \/ Tick
    \/ WaitRdyStep
    \/ InitConfigure
    \/ InitNegotiate
    \/ PollAer
    \/ PollSpurious
    \/ PollDone
    \/ RetInit
    \/ RetUser
    \/ RetQpCq
    \/ RetCreate
    \/ Resume
    \/ UserOneshot
    \/ RqSubmit
    \/ AenEnable
    \/ CreateIocq
    \/ CreateIosq
    \/ CreateIoqpair

Spec == Init /\ [][Next]_vars

\* bring-up, nvme_create_ioqpair and nvme_close
NextClose ==
    \/ InitProbe
    \/ DevReady
    \/ Tick
    \/ WaitRdyStep
    \/ InitConfigure
    \/ InitNegotiate
    \/ PollDone
    \/ RetInit
    \/ RetQpCq
    \/ RetCreate
    \/ Resume
    \/ CreateIoqpair
    \/ Close

SpecClose == Init /\ [][NextClose]_vars

SpecOpen == InitOpen /\ [][NextOpen]_vars

SpecRun == Init /\ [][NextRun]_vars

SpecCreate == Init /\ [][NextCreate]_vars

\* the thread keeps running and time keeps passing
SpecOpenFair == SpecOpen /\ WF_vars(Tick) /\ WF_vars(WaitRdyStep)

(***************************************************************************)
(* Properties of bring-up.                                                 *)
(***************************************************************************)
Min(a, b) == IF a < b THEN a ELSE b

\* C7: after nvme_init succeeds on a controller that is not administrative,
\* nsqa is the smaller of the requested nsqr and bits 15:0 of the Set Features
\* completion's dw0, ncqa the smaller of ncqr and bits 31:16; so nsqa <= nsqr
\* and ncqa <= ncqr.
C7_NegotiatedCounts ==
    (pc = "ret" /\ out.op = "init" /\ out.ret = 0 /\ env.classcode % 256 # 3) =>
        /\ ctrl.nsqa = Min(env.nsqr, fr.cqecopy.dw0 % 65536)
        /\ ctrl.ncqa = Min(env.ncqr, fr.cqecopy.dw0 \div 65536)
        /\ ctrl.nsqa <= env.nsqr
        /\ ctrl.ncqa <= env.ncqr

\* nvme_init succeeded with the device granting fewer submission queues than
\* asked for, and as many completion queues as asked for
C7_Witness ==
    /\ pc = "ret" /\ out.op = "init" /\ out.ret = 0
    /\ env.classcode % 256 # 3
    /\ fr.st = "done"
    /\ env.nsqr > 0 /\ ctrl.nsqa < env.nsqr
    /\ env.ncqr > 0 /\ ctrl.ncqa = env.ncqr
    /\ fr.cqecopy.dw0 \div 65536 > env.ncqr

\* C9: nvme_init fails with EINVAL at the page size test, before it resets the
\* controller or programs the admin queue, exactly when the controller's
\* minimum page size 2^(12 + CAP.MPSMIN) exceeds the host page size.
C9_MinPageSizeChecked ==
    LET exceeds == 2 ^ (12 + env.cap.mpsmin) > 2 ^ env.pageshift
    IN /\ (pc = "failed" /\ out.at = "pagesize") => (exceeds /\ out.errno = "EINVAL")
       /\ (exceeds /\ pc # "fresh") =>
              /\ pc = "failed"
              /\ out.at \in {"class", "pci_open", "regs", "pagesize"}
              /\ reg.cc = env.cc0 /\ reg.aqa = 0

\* C10: nvme_wait_rdy returns: 0 only after reading a CSTS whose RDY is the
\* target, -1 (timed out) only once more than 500 * (CAP.TO + 1) ms have
\* passed since the wait began; and while time advances it does return.
C10_WaitRdyTerminates ==
    /\ []((pc = "wait_ret" /\ wr.ret = 0) => (wr.csts >= 0 /\ wr.csts % 2 = wr.rdy))
    /\ []((pc = "wait_ret" /\ wr.ret = -1) => now > 500 * (env.cap.to + 1))
    /\ ((pc = "wait_rdy") ~> (pc = "wait_ret"))

\* the wait that follows the enable timed out on a device that never set RDY
C10_Witness ==
    /\ pc = "wait_ret" /\ wr.ctx = "enable" /\ wr.ret = -1
    /\ reg.csts % 2 = 0
    /\ wr.csts = 0

(***************************************************************************)
(* Properties of nvme_oneshot and of the async event requests.             *)
(***************************************************************************)
Range(f) == {f[i] : i \in DOMAIN f}
NoRepeats(f) == \A i, j \in DOMAIN f : i # j => f[i] # f[j]

\* C1: when a call of nvme_oneshot returns, whether it got its CQE or failed
\* at the ephemeral mapping, the queue's pool has as many free contexts as
\* when the call began, no context is on the free list twice, and a context
\* an async event request holds is not on it; so N calls in a row leave the
\* count where it was.
C1_PoolRestored ==
    pc = "oneshot_ret" =>
        /\ Len(sq[fr.q].free) = Len(fr.pre.free)
        /\ NoRepeats(sq[fr.q].free)
        /\ \A c \in dev.inflight[fr.q] :
               c.opc = "async_event" => (c.cid % NVME_CID_AER) \notin Range(sq[fr.q].free)

\* the second one-shot call on the admin queue failed at mapping its buffer
\* while an async event request held one of the contexts
C1_Witness ==
    /\ pc = "oneshot_ret" /\ fr.caller = "user" /\ fr.q = NVME_AQ
    /\ fr.st = "mapfail"
    /\ ncalls >= 2
    /\ \E c \in dev.inflight[NVME_AQ] : c.opc = "async_event"
    /\ Len(fr.pre.free) = NVME_AQ_QSIZE - 2

\* C4: every Asynchronous Event Request SQE on the admin ring, the one
\* nvme_aen_enable posts and each one nvme_aen_handle posts again, has the CID
\* AER bit | pool index of its context, and that context stays off the free
\* list: the pool's deficit due to one enabled AER stays one.
C4_AerCidTagged ==
    \A c \in dev.inflight[NVME_AQ] \cup {dev.ring[NVME_AQ].sqe} :
        c.opc = "async_event" =>
            /\ c.cid >= NVME_CID_AER
            /\ (c.cid - NVME_CID_AER) + 1 \in DOMAIN sq[NVME_AQ].opq
            /\ (c.cid - NVME_CID_AER) \notin Range(sq[NVME_AQ].free)

\* C5: a call of nvme_oneshot or nvme_aen_enable that finds the free list
\* empty returns -1 with errno EBUSY and leaves the ring, the tail, the
\* doorbell, the free list and the mappings as they were.
C5_BusyChangesNothing ==
    /\ (pc = "oneshot_ret" /\ fr.pre.free = <<>>) =>
           /\ fr.ret = -1 /\ fr.errno = "EBUSY"
           /\ Snap(World, fr.q) = fr.pre
    /\ (pc = "ret" /\ out.op = "aen_enable" /\ fr.pre.free = <<>>) =>
           /\ out.ret = -1 /\ out.errno = "EBUSY"
           /\ Snap(World, NVME_AQ) = fr.pre

\* nvme_oneshot returned busy on the configured admin queue, all of whose
\* contexts are held by commands posted before
C5_Witness ==
    /\ pc = "oneshot_ret" /\ fr.caller = "user" /\ fr.q = NVME_AQ
    /\ fr.st = "busy"
    /\ sq[NVME_AQ].qsize = NVME_AQ_QSIZE
    /\ dev.ring[NVME_AQ].slot >= 0

\* C6 as stated: nvme_oneshot returns 0 whenever the CQE of its context was
\* produced, whatever the CQE's status.
C6_OkOnEveryCqe ==
    (pc = "oneshot_ret" /\ fr.st = "done") => fr.ret = 0

\* C6: once the CQE of its context was produced, nvme_oneshot returns 0
\* exactly when no buffer was given or freeing the ephemeral mapping
\* succeeded, and -1 otherwise, whatever the CQE's status; the status reaches
\* the caller only in the copied-out CQE.
C6_OkUnlessUnmapFails ==
    (pc = "oneshot_ret" /\ fr.st = "done") =>
        /\ fr.ret = (IF fr.buf /\ res.eph # fr.pre.eph THEN -1 ELSE 0)
        /\ fr.cqecopy = (IF fr.copy THEN fr.seen ELSE NoCqe)
        /\ fr.seen.cid = fr.rq

\* nvme_oneshot returned 0 with a copied-out CQE whose status is not zero
C6_Witness ==
    /\ pc = "oneshot_ret" /\ fr.caller = "user" /\ fr.st = "done"
    /\ fr.seen.status # 0
    /\ fr.copy /\ fr.cqecopy.status = fr.seen.status
    /\ fr.buf
    /\ fr.ret = 0

\* C3: while nvme_oneshot polls, every CQE it takes is handled by its CID: on
\* the admin queue a CID with the AER bit gives exactly one dispatch of the
\* async event (to the handler registered for that context, with the CQE's
\* dw0) and polling goes on; a CID without the AER bit that is not the
\* context's own is skipped and polling goes on; the loop is left, and the
\* call returns, only on the CQE whose CID is the context's own.  On any other
\* queue no CQE is dispatched as an async event.
C3_PollRouting ==
    [][(pc = "poll") =>
          /\ (fr'.polls # fr.polls) =>
                LET cqe == fr'.seen
                    idx == cqe.cid % NVME_CID_AER
                IN IF cqe.cid = fr.rq
                   THEN /\ pc' = "oneshot_ret"
                        /\ aenLog' = aenLog
                   ELSE IF fr.q = NVME_AQ /\ cqe.cid >= NVME_CID_AER
                   THEN /\ pc' = "poll"
                        /\ aenLog' = Append(aenLog,
                                       <<IF sq[NVME_AQ].opq[idx + 1] # "none"
                                         THEN "handler" ELSE "log", cqe.dw0>>)
                        /\ sq'[fr.q].free = sq[fr.q].free
                   ELSE /\ pc' = "poll"
                        /\ aenLog' = aenLog
                        /\ sq' = sq
                        /\ dev'.ring = dev.ring
          /\ (pc' # "poll") =>
                /\ pc' = "oneshot_ret"
                /\ fr'.polls # fr.polls
                /\ fr'.seen.cid = fr.rq
          /\ (fr.q # NVME_AQ) => aenLog' = aenLog
      ]_vars

\* a one-shot on the admin queue returned after an async event was handed to
\* the registered handler and another CQE was skipped
C3_Witness ==
    /\ pc = "oneshot_ret" /\ fr.caller = "user" /\ fr.q = NVME_AQ /\ fr.st = "done"
    /\ Len(aenLog) = 1 /\ aenLog[1][1] = "handler"
    /\ dev.inflight[NVME_AQ] = {}
    /\ Len(sq[NVME_AQ].free) = NVME_AQ_QSIZE - 2

(***************************************************************************)
(* Properties of I/O queue creation.                                       *)
(***************************************************************************)
\* C2: when nvme_create_ioqpair(qid, qsize, flags), qid that of an I/O queue,
\* does not succeed, because a configure step fails or because the device
\* completes Create I/O CQ or Create I/O SQ with a status that is not zero,
\* the call returns -1, sq[qid] and cq[qid] are zeroed and as many IOMMU
\* mappings are live as before it.
C2_FailedPairRolledBack ==
    (pc = "ret" /\ out.op = "create_ioqpair" /\ out.qid # NVME_AQ
       /\ (out.ret # 0 \/ out.nack)) =>
        /\ out.ret = -1
        /\ Cardinality(res.iomap) = out.cpre
        /\ (out.qid \in ArrRange) => (sq[out.qid] = ZeroSq /\ cq[out.qid] = ZeroCq)

\* C8: on an administrative controller (programming interface 0x03) no Set
\* Features, Create I/O CQ or Create I/O SQ command is ever submitted, and no
\* queue but the admin pair is ever configured.
C8_AdminNoIoQueues ==
    (env.classcode % 256 = 3) =>
        /\ \A q \in ArrRange :
               \A c \in dev.inflight[q] \cup {dev.ring[q].sqe} :
                   c.opc \notin {"set_features", "create_cq", "create_sq"}
        /\ \A q \in ArrRange \ {NVME_AQ} : sq[q] = ZeroSq /\ cq[q] = ZeroCq

(***************************************************************************)
(* Properties of nvme_reset and nvme_enable.                               *)
(***************************************************************************)
\* field `mask' at `shift' of a register value, by division
Field(v, shift, width) == (v \div (2 ^ shift)) % (2 ^ width)

\* C18: nvme_reset writes to CC the value it read with only bit 0 (EN)
\* cleared, every other field as read, and returns 0 only after it has seen
\* CSTS.RDY = 0.
C18_ResetClearsOnlyEn ==
    /\ (pc \in {"wait_rdy", "wait_ret"} /\ wr.ctx = "reset") =>
           reg.cc = env.cc0 - (env.cc0 % 2)
    /\ (pc = "wait_ret" /\ wr.ctx = "reset" /\ wr.ret = 0) =>
           (wr.csts >= 0 /\ wr.csts % 2 = 0)

\* C19: the CC value nvme_enable writes has EN = 1, IOSQES = 6, IOCQES = 4,
\* SHN = 0 (none), AMS = 0 (round robin), and a CSS field that is exactly the
\* selection made from CAP.CSS: CSI (6) if bit 6 is set, else admin only (7)
\* if bit 7 is set, else NVM (0).
C19_EnableCcFields ==
    (pc \in {"wait_rdy", "wait_ret"} /\ wr.ctx = "enable") =>
        /\ Field(reg.cc, 0, 1) = 1
        /\ Field(reg.cc, 16, 4) = 6
        /\ Field(reg.cc, 20, 4) = 4
        /\ Field(reg.cc, 14, 2) = 0
        /\ Field(reg.cc, 11, 3) = 0
        /\ Field(reg.cc, 4, 3) =
              (IF Field(env.cap.css, 6, 1) = 1 THEN 6
               ELSE IF Field(env.cap.css, 7, 1) = 1 THEN 7
               ELSE 0)

(***************************************************************************)
(* The order of register and doorbell accesses in nvme_init.               *)
(***************************************************************************)
\* the accesses of a complete nvme_init of an I/O controller, in order
InitOrder ==
    <<"cc_en0", "rdy0", "aqa", "asq", "acq", "cc_en1", "rdy1", "sq_db", "cq_db">>

IsPrefix(s, t) == Len(s) <= Len(t) /\ s = SubSeq(t, 1, Len(s))

\* how far nvme_init has come when it fails at step `at'
FailedAfter(at) ==
    CASE at \in {"class", "pci_open", "regs", "pagesize"} -> 0
      [] at = "reset" -> 1
      [] at \in {"doorbells", "adminq"} -> 2
      [] at = "enable" -> 6
      [] at = "set_features" -> 9

\* C15: in every run of nvme_init the accesses come in the order CC written
\* with EN = 0, CSTS.RDY = 0 read, AQA, ASQ and ACQ written (for the admin
\* pair just configured), CC written with EN = 1, CSTS.RDY = 1 read, and
\* only then doorbell writes; a run that fails returns an error and has made
\* none of the accesses after the failing step.
C15_InitOrder ==
    /\ IsPrefix(ev, InitOrder)
    /\ (Len(ev) >= 5 /\ pc # "failed" /\ ncalls = 0 /\ cl.n = 0) =>
           /\ reg.aqa = AqaValue
           /\ reg.asq = sq[NVME_AQ].vaddr /\ sq[NVME_AQ].vaddr \in res.iomap
           /\ reg.acq = cq[NVME_AQ].vaddr /\ cq[NVME_AQ].vaddr \in res.iomap
    /\ pc = "failed" =>
           /\ out.op = "init" /\ out.ret = -1
           /\ Len(ev) = FailedAfter(out.at)
    /\ (pc = "ret" /\ out.op = "init" /\ out.ret = 0) => Len(ev) >= 7

C15_Witness ==
    /\ pc = "ret" /\ out.op = "init" /\ out.ret = 0
    /\ ev = InitOrder

(***************************************************************************)
(* Properties of nvme_close and of queue discard.                          *)
(***************************************************************************)
\* the rank of an operation in the order nvme_close is to follow
CloseRank(o) ==
    CASE o.op \in {"discard_sq", "free_sq"} -> 1
      [] o.op \in {"discard_cq", "free_cq"} -> 2
      [] o.op \in {"unmap_regs", "unmap_doorbells"} -> 3
      [] o.op = "vfio_close" -> 4

\* the first nvme_close on a controller that nvme_init opened has returned,
\* and it found the admin pair as nvme_configure_adminq had programmed it
ClosedAfterOpen ==
    /\ pc = "closed" /\ cl.n = 1 /\ cl.from = "idle"
    /\ cl.asq = reg.asq /\ cl.acq = reg.acq

\* C11: after a successful nvme_init and any nvme_create_ioqpair calls, nvme_close
\* discards the submission queues before the completion queues, then unmaps
\* the two BAR windows, then closes the PCI handle, and when it has returned
\* no ring or scratch-page buffer of any queue is page-mapped or IOMMU-mapped.
C11_CloseReleasesQueues ==
    ClosedAfterOpen =>
        /\ \A i, j \in 1 .. Len(cl.log) :
               i < j => CloseRank(cl.log[i]) <= CloseRank(cl.log[j])
        /\ {"unmap_regs", "unmap_doorbells", "vfio_close"} \subseteq
               {o.op : o \in Range(cl.log)}
        /\ \A q \in 0 .. (ctrl.nsqr + 1) : sq[q].vaddr = 0 /\ cq[q].vaddr = 0
        /\ res.pgmap = {}
        /\ res.iomap = {}

\* C12: a second nvme_close on the same controller changes nothing: it
\* releases no queue buffer, queue array, BAR window or PCI handle again.
\* (ctrl.adminq: nvme_init had acquired everything, so the first call
\* released only what was held.)
C12_CloseIdempotent ==
    (cl.n = 2 /\ ctrl.adminq) =>
        /\ pc = "closed"
        /\ cl.faults = {}
        /\ cl.log = <<>>

\* what nvme_init had acquired when it returned
Acquired == {x \in {"pci", "regs", "doorbells", "sqs", "cqs"} : ctrl[x]}

\* C17: nvme_close after an nvme_init that failed once the registers were
\* mapped releases exactly what nvme_init had acquired by then, and touches
\* no queue array, queue descriptor or BAR window nvme_init had not created.
C17_CloseAfterFailedInit ==
    (cl.n = 1 /\ cl.from = "failed") =>
        /\ pc = "closed"
        /\ cl.faults = {}
        /\ cl.gone = Acquired

\* a step in which nvme_configure_cq or nvme_configure_sq, run by
\* nvme_create_ioqpair, fails and the call returns
ConfigureFails ==
    /\ pc \in {"idle", "oneshot_ret"}
    /\ pc' = "ret"
    /\ out'.op = "create_ioqpair"
    /\ out'.ret = -1

\* a step of nvme_close on a controller whose arrays are held
ClosesQueues == cl'.n = cl.n + 1 /\ ArrState(ctrl, cl, "sqs") = "live"

\* C16: a Configure that fails has, on return, released what it had created
\* exactly once (the page mappings, IOMMU mappings and request arrays are as
\* many as before the call), and a later discard of the descriptor, as by
\* nvme_close, releases nothing a second time.
C16_FailedConfigureReleasedOnce ==
    /\ [][ConfigureFails =>
             /\ Cardinality(res'.pgmap) = Cardinality(res.pgmap)
             /\ Cardinality(res'.iomap) = Cardinality(res.iomap)
             /\ Cardinality(res'.heap) = Cardinality(res.heap)
             /\ res'.faults \subseteq res.faults \cup {"iounmap"}]_vars
    /\ [][ClosesQueues => res'.faults \subseteq res.faults]_vars

\* the regions the descriptors in use name
NamedMaps ==
    {sq[q].vaddr : q \in {i \in ArrRange : sq[i].vaddr # 0}}
      \cup {sq[q].pages : q \in {i \in ArrRange : sq[i].vaddr # 0}}
      \cup {cq[q].vaddr : q \in {i \in ArrRange : cq[i].vaddr # 0}}
NamedRqs == {sq[q].rqs : q \in {i \in ArrRange : sq[i].vaddr # 0}}

\* C13: nvme_discard_cq and nvme_discard_sq on a descriptor that is all zero
\* (never configured, or discarded before) unmap and free nothing and leave
\* it all zero; on a configured queue they leave the descriptor all zero; so
\* discarding twice is discarding once.  Stated of the discards nvme_close
\* makes on every entry of both arrays, and of the operators themselves.
C13_DiscardIdempotent ==
    /\ [](\A q \in ArrRange :
            /\ DiscardCq(DiscardCq(World, q), q) = DiscardCq(World, q)
            /\ DiscardSq(DiscardSq(World, q), q) = DiscardSq(World, q)
            /\ cq[q] = ZeroCq => DiscardCq(World, q) = World
            /\ sq[q] = ZeroSq => DiscardSq(World, q) = World)
    /\ [][ClosesQueues =>
            /\ \A q \in 0 .. (ctrl.nsqr + 1) :
                 /\ (sq[q] = ZeroSq \/ sq[q].vaddr # 0) => sq'[q] = ZeroSq
                 /\ (cq[q] = ZeroCq \/ cq[q].vaddr # 0) => cq'[q] = ZeroCq
            /\ res'.pgmap = res.pgmap \ NamedMaps
            /\ res'.iomap = res.iomap \ NamedMaps
            /\ res'.heap = res.heap \ NamedRqs]_vars

\* nvme_close has discarded a configured I/O pair, the admin pair and an
\* entry never configured
C13_Witness ==
    /\ pc = "closed" /\ cl.n = 1
    /\ CloseOp("discard_sq", 1) \in Range(cl.log)
    /\ CloseOp("discard_cq", 1) \in Range(cl.log)
    /\ CloseOp("discard_sq", NVME_AQ) \in Range(cl.log)
    /\ CloseOp("discard_sq", 2) \notin Range(cl.log)
    /\ res.pgmap = {} /\ res.faults = {}

(***************************************************************************)
(* Properties of queue configuration.                                      *)
(***************************************************************************)
\* a call that runs nvme_configure_cq first, and one that runs nvme_configure_sq
\* first; the frame of the call holds its qid and qsize
CallsConfigureCq == pc = "idle" /\ fr'.op \in {"create_iocq", "create_ioqpair"}
CallsConfigureSq == pc = "idle" /\ fr'.op = "create_iosq"

Rejected ==
    /\ pc' = "ret"
    /\ out'.ret = -1
    /\ out'.errno = "EINVAL"
    /\ UNCHANGED <<sq, cq, res, dev>>

\* C14: nvme_configure_cq with qid > ncqa or qsize < 2, and nvme_configure_sq
\* with qid > nsqa or qsize < 2, fail with EINVAL and change no descriptor,
\* page mapping or IOMMU mapping; so every configured queue has qsize >= 2
\* and an id that is at most the negotiated count, which is an index inside
\* the sq[] / cq[] array nvme_init allocated.
C14_ConfigureRejects ==
    /\ [][(CallsConfigureCq /\ (fr'.qid > ctrl.ncqa \/ fr'.qsize < 2)) => Rejected]_vars
    /\ [][(CallsConfigureSq /\ (fr'.qid > ctrl.nsqa \/ fr'.qsize < 2)) => Rejected]_vars
    /\ [](\A q \in ArrRange :
            /\ cq[q].vaddr # 0 =>
                 /\ cq[q].qsize >= 2
                 /\ cq[q].id = q /\ q <= ctrl.ncqa /\ q < ctrl.ncqr + 2
            /\ sq[q].vaddr # 0 =>
                 /\ sq[q].qsize >= 2
                 /\ sq[q].id = q /\ q <= ctrl.nsqa /\ q < ctrl.nsqr + 2)

\* a create call was rejected for its qid while an I/O queue is configured
C14_Witness ==
    /\ pc = "ret" /\ out.op = "create_iosq"
    /\ out.errno = "EINVAL" /\ fr.qid > ctrl.nsqa /\ fr.qsize >= 2
    /\ \E q \in ArrRange : q # NVME_AQ /\ cq[q].vaddr # 0 /\ cq[q].vaddr \in res.iomap

\* the cids met walking rq_next from rqs[i]
RECURSIVE RqChain(_, _, _)
RqChain(qid, pages, i) ==
    IF i < 0 THEN <<>>
    ELSE <<i>> \o RqChain(qid, pages, RqInit(qid, pages, i).rq_next)

\* a queue whose ring and pool are held
SqLive(q) == sq[q].vaddr \in res.iomap /\ sq[q].rqs \in res.heap

\* the step takes a context from the pool of queue q and posts a command
\* with it
Acquires(q) ==
    /\ SqLive(q)
    /\ sq'[q].rqs = sq[q].rqs
    /\ Len(sq'[q].free) = Len(sq[q].free) - 1

\* C20: after nvme_configure_sq with qsize q the pool holds q - 1 contexts;
\* acquiring takes them with cid q-2, q-3, ..., 0 in that order, each one
\* belonging to this queue with its page at pages + cid * PAGESIZE, and when
\* all q - 1 are taken a further acquire finds none (busy).
C20_PoolOrder ==
    /\ [](\A q \in ArrRange : SqLive(q) =>
            LET n == Len(sq[q].free)
                qs == sq[q].qsize
            IN /\ n <= qs - 1
               /\ sq[q].free = [k \in 1 .. n |-> n - k]
               /\ RqChain(q, sq[q].pages, qs - 2) = [k \in 1 .. (qs - 1) |-> qs - 1 - k]
               /\ FreeList(qs) = RqChain(q, sq[q].pages, qs - 2)
               /\ \A i \in 0 .. (qs - 2) :
                    LET rq == RqInit(q, sq[q].pages, i)
                    IN /\ rq.sq = q /\ rq.cid = i
                       /\ rq.page = [base |-> sq[q].pages, off |-> i * PAGESIZE])
    /\ [][\A q \in ArrRange : Acquires(q) =>
            /\ sq'[q].free = Tail(sq[q].free)
            /\ dev'.ring[q].sqe.cid % NVME_CID_AER = Len(sq[q].free) - 1
            /\ dev'.ring[q].slot = sq[q].tail]_vars
    /\ [](pc = "oneshot_ret" /\ fr.pre.free = <<>> => fr.st = "busy" /\ fr.errno = "EBUSY")

\* the whole admin pool was taken one context at a time, lowest cid last,
\* and the next call found the pool empty
C20_Witness ==
    /\ pc = "oneshot_ret" /\ fr.st = "busy" /\ fr.q = NVME_AQ
    /\ sq[NVME_AQ].free = <<>>
    /\ dev.ring[NVME_AQ].sqe.cid = 0
    /\ Cardinality({c.cid : c \in dev.inflight[NVME_AQ]}) = NVME_AQ_QSIZE - 1

====
